---- MODULE Spec2Model ----
\* A model of src/run.py: one run of main() -- load_config, get_fred_data,
\* calculate_recession_probability / generate_report, create_dashboard.
\*
\* Display labels are the configuration's Japanese strings in the source; the
\* model writes them in ASCII (LblNFP, LblUnrate, ...), keeping the one textual
\* property the code tests, whether the label contains "Curve".
EXTENDS Integers, Sequences, FiniteSets, TLC

VARIABLES
    pc,             \* position of main(): load, fred, fetch, thresholds, report, dashboard, done, exit1
    configFile,     \* what is at CONFIG_PATH: "absent", "malformed" or "ok"
    document,       \* the YAML document at CONFIG_PATH (a record; keys may be missing)
    provider,       \* what FRED answers per series id: an error or a list of observations
    config,         \* main's local config (the loaded document), NoValue before load_config
    idx,            \* get_fred_data: index of the next item of the for loop
    fetched,        \* the series ids for which fred.get_series has been called, in order
    aligned,        \* get_fred_data's local `series` after resample/ffill, per label
    data_results,   \* label -> level window (series.tail(24))
    yoy_results,    \* label -> change window (yoy.tail(24))
    latest_values,  \* label -> [value, yoy]
    data_keys,      \* insertion order of data_results' keys
    th,             \* main's local th (config['thresholds']), NoValue before it is read
    reportFile,     \* OUTPUT_MD: absent, empty (opened, nothing written) or the written report
    imageFile,      \* OUTPUT_IMAGE: absent or the saved figure (its 16 panels)
    failedAt        \* the step whose exception reached main's except clause, "none" otherwise

vars == <<pc, configFile, document, provider, config, idx, fetched, aligned,
          data_results, yoy_results, latest_values, data_keys, th, reportFile,
          imageFile, failedAt>>

NoValue == [k |-> "none"]

----------------------------------------------------------------------------
\* float64 values as the code meets them: a finite rational n/d (d > 0, lowest
\* terms), NaN, +inf or -inf.  Comparisons and arithmetic follow IEEE 754 as
\* numpy/pandas apply it to float64 series (division by zero does not raise).

RECURSIVE GCD(_, _)
GCD(a, b) == IF b = 0 THEN a ELSE GCD(b, a % b)

Abs(n) == IF n < 0 THEN -n ELSE n

NaN == [k |-> "nan"]
PosInf == [k |-> "inf"]
NegInf == [k |-> "ninf"]

Fin(n, d) ==
    LET s == IF d < 0 THEN -1 ELSE 1
        g == GCD(Abs(n), Abs(d))
    IN  [k |-> "fin", n |-> (s * n) \div g, d |-> (s * d) \div g]

Num(n) == Fin(n, 1)

IsFin(a) == a.k = "fin"
IsNaN(a) == a.k = "nan"

Sign(a) ==
    CASE a.k = "inf" -> 1
      [] a.k = "ninf" -> -1
      [] a.k = "fin" -> (IF a.n > 0 THEN 1 ELSE IF a.n < 0 THEN -1 ELSE 0)

\* a < b ; any comparison with NaN is False
FLt(a, b) ==
    IF IsNaN(a) \/ IsNaN(b) THEN FALSE
    ELSE IF IsFin(a) /\ IsFin(b) THEN a.n * b.d < b.n * a.d
    ELSE IF a.k = b.k THEN FALSE
    ELSE a.k = "ninf" \/ b.k = "inf"

\* a > b
FGt(a, b) == FLt(b, a)

FNeg(a) ==
    CASE a.k = "nan" -> NaN
      [] a.k = "inf" -> NegInf
      [] a.k = "ninf" -> PosInf
      [] a.k = "fin" -> Fin(-a.n, a.d)

FAdd(a, b) ==
    IF IsNaN(a) \/ IsNaN(b) THEN NaN
    ELSE IF IsFin(a) /\ IsFin(b) THEN Fin(a.n * b.d + b.n * a.d, a.d * b.d)
    ELSE IF IsFin(a) THEN b
    ELSE IF IsFin(b) THEN a
    ELSE IF a.k = b.k THEN a ELSE NaN

FSub(a, b) == FAdd(a, FNeg(b))

FMul(a, b) ==
    IF IsNaN(a) \/ IsNaN(b) THEN NaN
    ELSE IF IsFin(a) /\ IsFin(b) THEN Fin(a.n * b.n, a.d * b.d)
    ELSE IF Sign(a) * Sign(b) = 0 THEN NaN
    ELSE IF Sign(a) * Sign(b) > 0 THEN PosInf ELSE NegInf

FDiv(a, b) ==
    IF IsNaN(a) \/ IsNaN(b) THEN NaN
    ELSE IF IsFin(a) /\ IsFin(b) THEN
        IF b.n # 0 THEN Fin(a.n * b.d, a.d * b.n)
        ELSE IF a.n = 0 THEN NaN
        ELSE IF a.n > 0 THEN PosInf ELSE NegInf
    ELSE IF ~IsFin(a) /\ ~IsFin(b) THEN NaN
    ELSE IF IsFin(a) THEN Num(0)
    ELSE IF Sign(a) * (IF Sign(b) < 0 THEN -1 ELSE 1) > 0 THEN PosInf ELSE NegInf

----------------------------------------------------------------------------
\* Program constants.

YoyShift == 12      \* series.shift(12)
TailLen == 24       \* series.tail(24), yoy.tail(24)
NumPanels == 16     \* plt.subplots(4, 4) ; for i in range(16)

\* Display labels (item['label']).  In the source: the NFP label, the
\* unemployment-rate label, the Michigan sentiment label, the retail-sales
\* label, the 10Y-2Y "(Yield Curve)" label, the INDPRO label, the CPI label.
LblNFP == "Nonfarm Payrolls (NFP)"
LblUnrate == "Unemployment Rate"
LblMichigan == "Michigan Consumer Sentiment Index"
LblRetail == "Retail Sales"
LblCurve == "US 10Y-2Y Spread (Yield Curve)"
LblIndpro == "Industrial Production Index (INDPRO)"
LblCPI == "Consumer Price Index (CPI)"

\* "Curve" in label
ContainsCurve(label) == label = LblCurve

----------------------------------------------------------------------------
\* pandas Series on a monthly index: [start |-> month of the first entry,
\* vals |-> the values].  A fetched series is a list of observations
\* [m |-> month, v |-> value] in date order (several may fall in one month).

\* series.resample('MS').last(): one entry per calendar month from the first
\* observation's month to the last one's; the month's last observation, NaN
\* for a month with none.
Resample(obs) ==
    LET first == obs[1].m
        last == obs[Len(obs)].m
        InMonth(m) == {i \in 1..Len(obs) : obs[i].m = m /\ ~IsNaN(obs[i].v)}
        Last(S) == CHOOSE i \in S : \A j \in S : j <= i
    IN  [start |-> first,
         vals |-> [i \in 1..(last - first + 1) |->
                     IF InMonth(first + i - 1) = {} THEN NaN
                     ELSE obs[Last(InMonth(first + i - 1))].v]]

\* Series.ffill(): every NaN takes the last valid value before it, whatever
\* the length of the run of NaN (no limit= is passed).
RECURSIVE FfillAt(_, _)
FfillAt(vals, i) ==
    IF ~IsNaN(vals[i]) THEN vals[i]
    ELSE IF i = 1 THEN NaN
    ELSE FfillAt(vals, i - 1)

Ffill(series) ==
    [start |-> series.start,
     vals |-> [i \in 1..Len(series.vals) |-> FfillAt(series.vals, i)]]

\* series.shift(12): same index, values moved 12 entries later, NaN in front
Shift(series, n) ==
    [start |-> series.start,
     vals |-> [i \in 1..Len(series.vals) |->
                 IF i > n THEN series.vals[i - n] ELSE NaN]]

\* series - series.shift(12)
YoyDifference(series) ==
    LET sh == Shift(series, YoyShift)
    IN  [start |-> series.start,
         vals |-> [i \in 1..Len(series.vals) |-> FSub(series.vals[i], sh.vals[i])]]

\* (series / series.shift(12) - 1) * 100
YoyRatio(series) ==
    LET sh == Shift(series, YoyShift)
    IN  [start |-> series.start,
         vals |-> [i \in 1..Len(series.vals) |->
                     FMul(FSub(FDiv(series.vals[i], sh.vals[i]), Num(1)), Num(100))]]

\* a variant of Yoy that takes the ratio for every label
YoyAlwaysRatio(item, series) == YoyRatio(series)

\* if "Curve" in label: difference else: ratio  (the item's transform field is not read)
Yoy(item, series) ==
    IF ContainsCurve(item.label) THEN YoyDifference(series) ELSE YoyRatio(series)

\* Series.tail(n)
SeriesTail(series, n) ==
    LET len == Len(series.vals)
        k == IF len > n THEN len - n ELSE 0
    IN  [start |-> series.start + k,
         vals |-> [i \in 1..(len - k) |-> series.vals[i + k]]]

\* Series.iloc[-1]
ILast(series) == series.vals[Len(series.vals)]

----------------------------------------------------------------------------
\* calculate_recession_probability

\* the checks list: (label, key, th_key, op)
checks ==
    << [label |-> LblNFP,      key |-> "yoy",   th_key |-> "nfp_yoy_min",      op |-> "<"],
       [label |-> LblUnrate,   key |-> "yoy",   th_key |-> "unrate_yoy_max",   op |-> ">"],
       [label |-> LblMichigan, key |-> "value", th_key |-> "michigan_val_min", op |-> "<"],
       [label |-> LblRetail,   key |-> "yoy",   th_key |-> "retail_yoy_min",   op |-> "<"],
       [label |-> LblCurve,    key |-> "value", th_key |-> "yield_curve_max",  op |-> "<"],
       [label |-> LblIndpro,   key |-> "yoy",   th_key |-> "indpro_yoy_min",   op |-> "<"] >>

\* (op == '<' and val < bound) or (op == '>' and val > bound)
Compare(op, val, bound) ==
    (op = "<" /\ FLt(val, bound)) \/ (op = ">" /\ FGt(val, bound))

\* the body of the for loop from check i on; thresholds[th_key] is read for
\* every check whose label is in latest_values and raises KeyError when absent
RECURSIVE CheckLoop(_, _, _, _, _)
CheckLoop(latest, thresholds, i, signals, total) ==
    IF i > Len(checks) THEN [raised |-> FALSE, signals |-> signals, total |-> total]
    ELSE IF checks[i].label \notin DOMAIN latest
        THEN CheckLoop(latest, thresholds, i + 1, signals, total)
    ELSE IF checks[i].th_key \notin DOMAIN thresholds
        THEN [raised |-> TRUE, signals |-> signals, total |-> total + 1]
    ELSE CheckLoop(latest, thresholds, i + 1,
                   IF Compare(checks[i].op, latest[checks[i].label][checks[i].key],
                              thresholds[checks[i].th_key])
                   THEN signals + 1 ELSE signals,
                   total + 1)

\* a variant of IntPercent that rounds to the nearest integer instead of truncating
IntPercentRounded(signals, total) ==
    IF total > 0 THEN (200 * signals + total) \div (2 * total) ELSE 0

\* int((signals / total) * 100) if total > 0 else 0.  int() truncates; for
\* total <= Len(checks) the float product is within one ulp of the exact
\* quotient and never crosses an integer, so the result is the integer quotient.
IntPercent(signals, total) ==
    IF total > 0 THEN (signals * 100) \div total ELSE 0

\* a variant of calculate_recession_probability with the fixed denominator
\* len(checks): a rule whose label is missing still counts in total
calculate_fixed_total(latest, thresholds) ==
    LET r == CheckLoop(latest, thresholds, 1, 0, 0)
    IN  IF r.raised THEN [raised |-> TRUE]
        ELSE [raised |-> FALSE,
              prob |-> IntPercent(r.signals, Len(checks)),
              signals |-> r.signals,
              total |-> Len(checks)]

\* the returned tuple (percentage, signals, total), or the KeyError
calculate_recession_probability(latest, thresholds) ==
    LET r == CheckLoop(latest, thresholds, 1, 0, 0)
    IN  IF r.raised THEN [raised |-> TRUE]
        ELSE [raised |-> FALSE,
              prob |-> IntPercent(r.signals, r.total),
              signals |-> r.signals,
              total |-> r.total]

----------------------------------------------------------------------------
\* generate_report: the header carries prob, signals and total; one entry per
\* label of latest_values in insertion order, with the suffix and the number
\* format the label selects.

\* any(x in label for x in [index, "CPI", "PCE", "Curve"])
FixedFormat(label) == label \in {LblMichigan, LblIndpro, LblCPI, LblCurve}

generate_report(keys, latest, thresholds) ==
    LET r == calculate_recession_probability(latest, thresholds)
    IN  IF r.raised THEN [raised |-> TRUE]
        ELSE [raised |-> FALSE,
              prob |-> r.prob, signals |-> r.signals, total |-> r.total,
              entries |-> [i \in 1..Len(keys) |->
                  [label |-> keys[i],
                   value |-> latest[keys[i]].value,
                   format |-> IF FixedFormat(keys[i]) THEN ".2f" ELSE ",",
                   yoy |-> latest[keys[i]].yoy,
                   suffix |-> IF ContainsCurve(keys[i]) THEN "pt" ELSE "%"]]]

----------------------------------------------------------------------------
\* create_dashboard: 16 panels, two per label (level, change) for the first 8
\* labels of data_results, blank beyond.

AlertColor == "#ff3333"
NormalLine == "#00ffcc"
NormalBar == "#ff66cc"

\* the threshold keys a level panel reads (short-circuit: only for its label)
LevelKeys(label) ==
    IF label = LblMichigan THEN {"michigan_val_min"}
    ELSE IF label = LblCurve THEN {"yield_curve_max"} ELSE {}

\* one colour for the whole line, decided by data.iloc[-1]
LevelColor(label, data, thresholds) ==
    IF (label = LblMichigan /\ FLt(ILast(data), thresholds["michigan_val_min"]))
       \/ (label = LblCurve /\ FLt(ILast(data), thresholds["yield_curve_max"]))
    THEN AlertColor ELSE NormalLine

\* the threshold keys a change panel reads (a non-empty window; the or-chain
\* stops at the label's own clause)
BarKeys(label) ==
    CASE label = LblNFP -> {"nfp_yoy_min"}
      [] label = LblUnrate -> {"unrate_yoy_max"}
      [] label = LblRetail -> {"retail_yoy_min"}
      [] label = LblIndpro -> {"indpro_yoy_min"}
      [] OTHER -> {}

\* a variant of BarColor that decides every bar of the window by one fixed
\* threshold comparison v < 0, whatever the label's rule is
BarColorBelowZero(label, v, thresholds) ==
    IF label \in {LblNFP, LblUnrate, LblRetail, LblIndpro} /\ FLt(v, Num(0))
    THEN AlertColor ELSE NormalBar

\* one colour per bar, decided by the bar's own value v
BarColor(label, v, thresholds) ==
    IF (label = LblNFP /\ FLt(v, thresholds["nfp_yoy_min"]))
       \/ (label = LblUnrate /\ FGt(v, thresholds["unrate_yoy_max"]))
       \/ (label = LblRetail /\ FLt(v, thresholds["retail_yoy_min"]))
       \/ (label = LblIndpro /\ FLt(v, thresholds["indpro_yoy_min"]))
    THEN AlertColor ELSE NormalBar

Panel(i, keys, data, yoy, thresholds) ==
    LET label_idx == i \div 2
        label == keys[label_idx + 1]
    IN  IF label_idx >= Len(keys) THEN [kind |-> "blank"]
        ELSE IF i % 2 = 0 THEN
            [kind |-> "level", label |-> label,
             start |-> data[label].start,
             values |-> data[label].vals,
             color |-> LevelColor(label, data[label], thresholds),
             \* fill_between(..., where=(data.values < 0)) for a "Curve" label
             shaded |-> IF ContainsCurve(label)
                        THEN {j \in 1..Len(data[label].vals) : FLt(data[label].vals[j], Num(0))}
                        ELSE {}]
        ELSE
            [kind |-> "yoy", label |-> label,
             start |-> yoy[label].start,
             values |-> yoy[label].vals,
             colors |-> [j \in 1..Len(yoy[label].vals) |->
                            BarColor(label, yoy[label].vals[j], thresholds)]]

\* the figure, or the KeyError of a threshold a drawn panel needs
create_dashboard(keys, data, yoy, thresholds) ==
    LET drawn == {keys[j] : j \in 1..(IF Len(keys) < NumPanels \div 2 THEN Len(keys) ELSE NumPanels \div 2)}
        needed == UNION {LevelKeys(l) \cup BarKeys(l) : l \in drawn}
    IN  IF ~(needed \subseteq DOMAIN thresholds) THEN [raised |-> TRUE]
        ELSE [raised |-> FALSE,
              panels |-> [i \in 0..(NumPanels - 1) |-> Panel(i, keys, data, yoy, thresholds)]]

----------------------------------------------------------------------------
\* Inputs of a run: the configuration document and what FRED answers.

MaxGap == 3     \* longest run of months without an observation in a fetched series

Levels == {Num(-1), Num(0), Num(50), Num(100)}

\* A fetched series of n months: value a up to a year before the end, then b,
\* and c in the last month (which holds two observations, b then c); the g
\* months before the last one have no observation.
Obs(n, a, b, c, g) ==
    LET body == [i \in 1..(n - 1 - g) |->
                    [m |-> i, v |-> IF i <= n - YoyShift THEN a ELSE b]]
    IN  body \o << [m |-> n, v |-> b], [m |-> n, v |-> c] >>

HistoryLengths == {YoyShift, YoyShift + 1, TailLen + 2}

RichSeries ==
    {Obs(n, a, b, c, g) :
        n \in HistoryLengths, a \in Levels, b \in Levels, c \in Levels, g \in 0..MaxGap}

SeriesUp == Obs(YoyShift + 1, Num(50), Num(50), Num(100), 0)
SeriesDown == Obs(YoyShift + 1, Num(50), Num(50), Num(-1), 0)
CoarseSeries == {SeriesUp, SeriesDown}

\* what fred.get_series does for a series id: raise, or return observations
FetchError == [ok |-> FALSE]
Returns(obs) == [ok |-> TRUE, obs |-> obs]

TransformKinds == {"ratio", "difference"}

\* the indicators of the catalog: id, label, and the transform field of the
\* configuration document
Item(id, label, transform) == [id |-> id, label |-> label, transform |-> transform]

Catalog ==
    << Item("PAYEMS", LblNFP, "ratio"),
       Item("UNRATE", LblUnrate, "ratio"),
       Item("UMCSENT", LblMichigan, "ratio"),
       Item("RSAFS", LblRetail, "ratio"),
       Item("T10Y2Y", LblCurve, "difference"),
       Item("INDPRO", LblIndpro, "ratio"),
       Item("CPIAUCSL", LblCPI, "ratio") >>

Thresholds ==
    [nfp_yoy_min |-> Fin(1, 2), unrate_yoy_max |-> Num(5), michigan_val_min |-> Num(60),
     retail_yoy_min |-> Num(0), yield_curve_max |-> Num(0), indpro_yoy_min |-> Num(0)]

\* a thresholds mapping that lacks one key
ThresholdsNoMichigan ==
    [k \in (DOMAIN Thresholds) \ {"michigan_val_min"} |-> Thresholds[k]]

Doc(indicators, thresholds) == [indicators |-> indicators, thresholds |-> thresholds]

Ids(indicators) == {indicators[i].id : i \in 1..Len(indicators)}
Labels(indicators) == {indicators[i].label : i \in 1..Len(indicators)}

\* the state of an output file
NoFile == [k |-> "none"]
EmptyFile == [k |-> "empty"]
Written(content) == [k |-> "written", content |-> content]

\* one indicator, any transform field, any series: the per-indicator pipeline
InitSingle ==
    \E i \in 1..Len(Catalog), t \in TransformKinds, s \in {Returns(o) : o \in RichSeries} \cup {FetchError} :
        /\ document = Doc(<<Item(Catalog[i].id, Catalog[i].label, t)>>, Thresholds)
        /\ provider = [id \in {Catalog[i].id} |-> s]

\* the whole catalog, each fetch failing or returning a rising or falling series
InitCatalog ==
    /\ document = Doc(Catalog, Thresholds)
    /\ provider \in [Ids(Catalog) -> {Returns(o) : o \in CoarseSeries} \cup {FetchError}]

\* documents that are valid YAML but not a valid configuration
InitDefective ==
    \E s \in {Returns(o) : o \in CoarseSeries} \cup {FetchError} :
        /\ provider = [id \in {"UMCSENT"} |-> s]
        /\ document \in
              { Doc(<<>>, Thresholds),
                [thresholds |-> Thresholds],
                [indicators |-> <<Catalog[3]>>],
                Doc(<<Catalog[3]>>, ThresholdsNoMichigan) }

Init ==
    /\ pc = "load"
    /\ configFile \in {"absent", "malformed", "ok"}
    /\ \/ configFile = "ok" /\ (InitSingle \/ InitCatalog \/ InitDefective)
       \/ configFile # "ok" /\ document = NoValue /\ provider = [id \in Ids(Catalog) |-> Returns(SeriesUp)]
    /\ config = NoValue
    /\ idx = 0
    /\ fetched = <<>>
    /\ aligned = <<>>
    /\ data_results = <<>>
    /\ yoy_results = <<>>
    /\ latest_values = <<>>
    /\ data_keys = <<>>
    /\ th = NoValue
    /\ reportFile = NoFile
    /\ imageFile = NoFile
    /\ failedAt = "none"

----------------------------------------------------------------------------
\* main

\* except Exception as e: print(...); exit(1)
Fail(step) == pc' = "exit1" /\ failedAt' = step

\* d[key] = value on a dict modelled as a function
Put(d, key, value) == [k \in (DOMAIN d) \cup {key} |-> IF k = key THEN value ELSE d[k]]

\* config = load_config(): open() or yaml.safe_load raises, or the document is returned
LoadConfig ==
    /\ pc = "load"
    /\ IF configFile = "ok"
       THEN pc' = "fred" /\ config' = document /\ UNCHANGED failedAt
       ELSE Fail("load_config") /\ UNCHANGED config
    /\ UNCHANGED <<configFile, document, provider, idx, fetched, aligned, data_results,
                   yoy_results, latest_values, data_keys, th, reportFile, imageFile>>

\* config['indicators'] (KeyError when absent), then get_fred_data up to its
\* loop: Fred(api_key=FRED_API_KEY) raises when no key is set
EnterGetFredData ==
    /\ pc = "fred"
    /\ IF "indicators" \notin DOMAIN config
       THEN Fail("config['indicators']") /\ UNCHANGED idx
       ELSE \E keySet \in BOOLEAN :
               IF keySet THEN pc' = "fetch" /\ idx' = 1 /\ UNCHANGED failedAt
               ELSE Fail("Fred") /\ UNCHANGED idx
    /\ UNCHANGED <<configFile, document, provider, config, fetched, aligned, data_results,
                   yoy_results, latest_values, data_keys, th, reportFile, imageFile>>

\* one iteration of `for item in indicators`
FetchItem ==
    /\ pc = "fetch"
    /\ idx <= Len(config.indicators)
    /\ LET item == config.indicators[idx]
           label == item.label
       IN  /\ fetched' = Append(fetched, item.id)
           /\ idx' = idx + 1
           /\ IF ~provider[item.id].ok
              THEN \* fred.get_series raises: print, continue
                   UNCHANGED <<aligned, data_results, yoy_results, latest_values, data_keys>>
              ELSE LET series == Ffill(Resample(provider[item.id].obs))
                       yoy == Yoy(item, series)
                   IN  /\ aligned' = Put(aligned, label, series)
                       /\ data_results' = Put(data_results, label, SeriesTail(series, TailLen))
                       /\ yoy_results' = Put(yoy_results, label, SeriesTail(yoy, TailLen))
                       /\ data_keys' = IF label \in DOMAIN data_results THEN data_keys
                                       ELSE Append(data_keys, label)
                       /\ latest_values' = Put(latest_values, label,
                                               [value |-> ILast(series), yoy |-> ILast(yoy)])
    /\ UNCHANGED <<pc, configFile, document, provider, config, th, reportFile, imageFile,
                   failedAt>>

\* get_fred_data returns; th = config['thresholds'] (KeyError when absent)
ReadThresholds ==
    /\ pc = "fetch"
    /\ idx > Len(config.indicators)
    /\ IF "thresholds" \in DOMAIN config
       THEN pc' = "report" /\ th' = config.thresholds /\ UNCHANGED failedAt
       ELSE Fail("config['thresholds']") /\ UNCHANGED th
    /\ UNCHANGED <<configFile, document, provider, config, idx, fetched, aligned,
                   data_results, yoy_results, latest_values, data_keys, reportFile, imageFile>>

\* with open(OUTPUT_MD, "w") as f: f.write(generate_report(latest, th))
\* open() raises when output/ cannot be written; it truncates the file before
\* generate_report runs, so an exception in generate_report leaves it empty
WriteReport ==
    /\ pc = "report"
    /\ \E canOpen \in BOOLEAN :
          IF ~canOpen THEN Fail("open(OUTPUT_MD)") /\ UNCHANGED reportFile
          ELSE LET r == generate_report(data_keys, latest_values, th)
               IN  IF r.raised
                   THEN Fail("generate_report") /\ reportFile' = EmptyFile
                   ELSE pc' = "dashboard" /\ reportFile' = Written(r) /\ UNCHANGED failedAt
    /\ UNCHANGED <<configFile, document, provider, config, idx, fetched, aligned,
                   data_results, yoy_results, latest_values, data_keys, th, imageFile>>

\* create_dashboard(data, yoy, th): the font file or plt.savefig may fail
CreateDashboard ==
    /\ pc = "dashboard"
    /\ \E canRender \in BOOLEAN :
          LET fig == create_dashboard(data_keys, data_results, yoy_results, th)
          IN  IF canRender /\ ~fig.raised
              THEN pc' = "done" /\ imageFile' = Written(fig.panels) /\ UNCHANGED failedAt
              ELSE Fail("create_dashboard") /\ UNCHANGED imageFile
    /\ UNCHANGED <<configFile, document, provider, config, idx, fetched, aligned,
                   data_results, yoy_results, latest_values, data_keys, th, reportFile>>

Next ==
    \/ LoadConfig
    \/ EnterGetFredData
    \/ FetchItem
    \/ ReadThresholds
    \/ WriteReport
    \/ CreateDashboard

Spec == Init /\ [][Next]_vars

----------------------------------------------------------------------------
\* Vocabulary of the properties.

ReportWritten == reportFile.k = "written"
Report == reportFile.content
ImageWritten == imageFile.k = "written"
Terminated == pc \in {"done", "exit1"}

Rules == 1..Len(checks)

\* the configured items, and the item that carries a label
Indicators == IF "indicators" \in DOMAIN config THEN config.indicators ELSE <<>>
ItemOf(label) == CHOOSE it \in {Indicators[i] : i \in 1..Len(Indicators)} : it.label = label

Configured(label) == label \in Labels(Indicators)
FetchFailed(label) == Configured(label) /\ ~provider[ItemOf(label).id].ok

\* the number of rules of the table that reference a label of the set
RulesOn(labels) == Cardinality({i \in Rules : checks[i].label \in labels})

\* the rule's verdict on a value
Triggers(i, v, thresholds) == Compare(checks[i].op, v, thresholds[checks[i].th_key])

\* equality of float values (NaN equal to NaN here: "the same value was produced")
FEq(a, b) ==
    IF IsFin(a) /\ IsFin(b) THEN a.n * b.d = b.n * a.d ELSE a.k = b.k

\* the months of a fetched series that hold no observation
Observed(obs, m) == \E i \in 1..Len(obs) : obs[i].m = m
\* the length of the run of months without observation that ends at month m
RECURSIVE MissingRun(_, _)
MissingRun(obs, m) ==
    IF m < obs[1].m \/ Observed(obs, m) THEN 0 ELSE 1 + MissingRun(obs, m - 1)

----------------------------------------------------------------------------
\* C1 (as claimed): the percentage of a written report is
\* round(100 * signals / total) when total > 0, and 0 when total = 0.
\* (No quotient 100*s/t with t <= 6 ends in .5, so round is round-half-up here.)
C1_PercentageIsRounded ==
    ReportWritten =>
        Report.prob = (IF Report.total > 0
                       THEN (200 * Report.signals + Report.total) \div (2 * Report.total)
                       ELSE 0)

\* C1 (amended): the percentage of a written report is 100 * signals / total
\* truncated to an integer (2 of 3 gives 66) when total > 0, and 0 when total = 0.
C1_PercentageIsTruncated ==
    ReportWritten =>
        IF Report.total > 0
        THEN /\ Report.prob * Report.total <= 100 * Report.signals
             /\ 100 * Report.signals < (Report.prob + 1) * Report.total
        ELSE Report.prob = 0

\* C1 witness: 2 of 3 evaluable rules triggered
C1_TwoOfThree == ReportWritten /\ Report.signals = 2 /\ Report.total = 3

----------------------------------------------------------------------------
\* the verdict of rule i computed from the series of its own indicator alone
C2_OwnVerdict(i) ==
    LET it == ItemOf(checks[i].label)
        series == Ffill(Resample(provider[it.id].obs))
        v == IF checks[i].key = "value" THEN ILast(series) ELSE ILast(Yoy(it, series))
    IN  Triggers(i, v, th)

\* C2: when the fetch of an indicator fails the run goes on to the report, whose
\* total is the number of rules on configured labels less exactly the number of
\* rules on the labels whose fetch failed, and whose signals are the verdicts of
\* the rules on the other labels, each decided by its own label's series alone.
C2_FailedFetchSkipsItsRules ==
    /\ (pc = "fetch" /\ idx > 1) =>
          \A j \in 1..(idx - 1) :
              ~provider[Indicators[j].id].ok => Indicators[j].label \notin DOMAIN latest_values
    /\ ReportWritten =>
          /\ Report.total = RulesOn(Labels(Indicators))
                              - RulesOn({l \in Labels(Indicators) : FetchFailed(l)})
          /\ Report.signals =
                Cardinality({i \in Rules : /\ Configured(checks[i].label)
                                           /\ ~FetchFailed(checks[i].label)
                                           /\ C2_OwnVerdict(i)})

\* C2 witness: a report written after the fetch of a rule's indicator failed,
\* with rules on other indicators evaluated and one of them triggered
C2_ReportAfterFailedFetch ==
    /\ ReportWritten
    /\ \E i \in Rules : FetchFailed(checks[i].label)
    /\ Report.total > 1
    /\ Report.signals > 0

----------------------------------------------------------------------------
\* C3 (as claimed): a rule keyed on 'yoy' whose indicator has fewer than 13
\* aligned months is skipped: total counts only the rules keyed on 'value' and
\* the rules keyed on 'yoy' whose indicator has at least 13 aligned months.
C3_ShortHistorySkipsChangeRules ==
    ReportWritten =>
        Report.total =
            Cardinality({i \in Rules :
                /\ checks[i].label \in DOMAIN latest_values
                /\ (checks[i].key = "yoy" =>
                        Len(aligned[checks[i].label].vals) > YoyShift)})

----------------------------------------------------------------------------
\* the change at entry t of an aligned series under a transform kind
C4_ChangeAt(kind, series, t) ==
    IF kind = "difference"
    THEN FSub(series.vals[t], series.vals[t - YoyShift])
    ELSE FMul(FSub(FDiv(series.vals[t], series.vals[t - YoyShift]), Num(1)), Num(100))

\* the transform kind the configuration gives the label's item
C4_ByTransformField(label) == ItemOf(label).transform

\* C4 (as claimed): with at least 13 aligned months, every entry of the change
\* window that has a value 12 months before it is the ratio change when the
\* item's transform is "ratio" and the difference when it is "difference".
C4_ChangeFollowsTransformKind ==
    \A label \in DOMAIN yoy_results :
        LET series == aligned[label]
            win == yoy_results[label]
        IN  \A j \in 1..Len(win.vals) :
                LET t == win.start + j - series.start
                IN  t > YoyShift =>
                        FEq(win.vals[j],
                            C4_ChangeAt(C4_ByTransformField(label), series, t))

\* the transform kind the label selects
C4_ByLabel(label) == IF ContainsCurve(label) THEN "difference" ELSE "ratio"

\* C4 (amended): the change is the difference when the label contains "Curve"
\* and the ratio change otherwise, whatever the item's transform field is
\* (float arithmetic: a zero value 12 months before gives +-inf or NaN).
C4_ChangeFollowsLabel ==
    \A label \in DOMAIN yoy_results :
        LET series == aligned[label]
            win == yoy_results[label]
        IN  /\ Len(win.vals) = Len(data_results[label].vals)
            /\ win.start = data_results[label].start
            /\ \A j \in 1..Len(win.vals) :
                  LET t == win.start + j - series.start
                  IN  IF t > YoyShift
                      THEN FEq(win.vals[j], C4_ChangeAt(C4_ByLabel(label), series, t))
                      ELSE IsNaN(win.vals[j])

\* C4 witness: a "Curve" item configured as ratio, with 13 months or more and a
\* finite non-zero latest change
C4_CurveConfiguredAsRatio ==
    /\ pc = "done"
    /\ LblCurve \in DOMAIN latest_values
    /\ ItemOf(LblCurve).transform = "ratio"
    /\ Len(aligned[LblCurve].vals) > TailLen
    /\ IsFin(latest_values[LblCurve].yoy)
    /\ latest_values[LblCurve].yoy.n # 0

----------------------------------------------------------------------------
\* C5 (as claimed): in an aligned series a month without observation carries a
\* filled value only while the run of months without observation it belongs to
\* is at most 2 long; from the third month of a run on the month is unavailable.
C5_FillStopsAtGapBound ==
    \A label \in DOMAIN aligned :
        LET obs == provider[ItemOf(label).id].obs
            series == aligned[label]
        IN  \A j \in 1..Len(series.vals) :
                MissingRun(obs, series.start + j - 1) > 2 => IsNaN(series.vals[j])

----------------------------------------------------------------------------
\* the ratio transform of the label divides by zero at the latest month
C6_ZeroDenominator(label) ==
    /\ label \in DOMAIN aligned
    /\ ~ContainsCurve(label)
    /\ Len(aligned[label].vals) > YoyShift
    /\ FEq(aligned[label].vals[Len(aligned[label].vals) - YoyShift], Num(0))

\* C6 (as claimed): when the value 12 months before the latest month is zero
\* for an indicator under the ratio transform, the run does not stop in
\* get_fred_data, the latest change is unavailable, and no rule on that
\* indicator's change triggers, so signals counts none of them.
C6_ZeroDenominatorNeverTriggers ==
    /\ \A label \in DOMAIN aligned :
          C6_ZeroDenominator(label) => IsNaN(latest_values[label].yoy)
    /\ ReportWritten =>
          /\ \A i \in Rules :
                (checks[i].key = "yoy" /\ C6_ZeroDenominator(checks[i].label))
                    => ~Triggers(i, latest_values[checks[i].label].yoy, th)
          /\ Report.signals <=
                Cardinality({i \in Rules :
                    /\ checks[i].label \in DOMAIN latest_values
                    /\ ~(checks[i].key = "yoy" /\ C6_ZeroDenominator(checks[i].label))})

----------------------------------------------------------------------------
\* the configuration is absent, malformed, or lists no indicators
C7_ConfigInvalid ==
    \/ configFile # "ok"
    \/ "indicators" \notin DOMAIN document
    \/ document.indicators = <<>>

\* C7 (as claimed): when the configuration document is absent, malformed, or
\* lists no indicators, no fetch is ever issued, neither output file is ever
\* opened or written, and the run ends with the failure exit.
C7_InvalidConfigAbortsBeforeFetch ==
    C7_ConfigInvalid =>
        /\ fetched = <<>>
        /\ reportFile = NoFile
        /\ imageFile = NoFile
        /\ pc # "done"

----------------------------------------------------------------------------
\* the tier mapping of the specification
C8_Tier(percentage) ==
    IF percentage >= 80 THEN "critical"
    ELSE IF percentage >= 50 THEN "warning" ELSE "observe"

\* C8 (as claimed): the composite score of a written report carries a tier that
\* is the function of its percentage alone: critical from 80, warning from 50,
\* observe below; 2 of 6 rules triggered gives percentage 33 and tier observe.
C8_ScoreCarriesTier ==
    ReportWritten =>
        /\ (Report.signals = 2 /\ Report.total = 6) => Report.prob = 33
        /\ "tier" \in DOMAIN Report
        /\ Report.tier = C8_Tier(Report.prob)

----------------------------------------------------------------------------
\* the rules on a label and metric; the colour of a point of a panel
C9_RuleFor(label, key) == {i \in Rules : checks[i].label = label /\ checks[i].key = key}

C9_PointColor(panel, j) ==
    IF panel.kind = "level" THEN panel.color ELSE panel.colors[j]

C9_PanelKey(panel) == IF panel.kind = "level" THEN "value" ELSE "yoy"

\* C9 (as claimed): in the saved figure every point of a level or change panel
\* whose label has a rule on that metric is alert-coloured iff the rule, with
\* its threshold and comparator, triggers on that point's value.
C9_EveryPointColouredByItsOwnValue ==
    ImageWritten =>
        \A p \in DOMAIN imageFile.content :
            LET panel == imageFile.content[p]
            IN  panel.kind # "blank" =>
                    \A i \in C9_RuleFor(panel.label, C9_PanelKey(panel)) :
                        \A j \in 1..Len(panel.values) :
                            (C9_PointColor(panel, j) = AlertColor)
                                <=> Triggers(i, panel.values[j], th)

\* C9 (amended): every bar of a change panel is alert-coloured iff the rule
\* triggers on that bar's value; the line of a level panel has one colour, and
\* it is the alert colour iff the rule triggers on the latest value of the window.
C9_BarsByOwnValueLineByLatest ==
    ImageWritten =>
        \A p \in DOMAIN imageFile.content :
            LET panel == imageFile.content[p]
            IN  panel.kind # "blank" =>
                    \A i \in C9_RuleFor(panel.label, C9_PanelKey(panel)) :
                        \A j \in 1..Len(panel.values) :
                            (C9_PointColor(panel, j) = AlertColor)
                                <=> Triggers(i,
                                             IF panel.kind = "level"
                                             THEN panel.values[Len(panel.values)]
                                             ELSE panel.values[j],
                                             th)

\* C9 witness: a saved change panel with an alert bar and a normal bar, and a
\* saved level panel drawn in the alert colour with a point its rule does not
\* trigger on
C9_MixedBars ==
    /\ ImageWritten
    /\ \E p \in DOMAIN imageFile.content :
          LET panel == imageFile.content[p]
          IN  /\ panel.kind = "yoy"
              /\ \E j, k \in 1..Len(panel.values) :
                    panel.colors[j] = AlertColor /\ panel.colors[k] = NormalBar
    /\ \E p \in DOMAIN imageFile.content :
          LET panel == imageFile.content[p]
          IN  /\ panel.kind = "level"
              /\ panel.color = AlertColor
              /\ \E i \in C9_RuleFor(panel.label, "value"), j \in 1..Len(panel.values) :
                    ~Triggers(i, panel.values[j], th)

----------------------------------------------------------------------------
\* the exception that ended the run came from opening or generating the report
C10_ReportFailed == failedAt \in {"open(OUTPUT_MD)", "generate_report"}

\* C10 (as claimed): when create_dashboard fails after the report was written
\* the report file stays complete, and when generating or writing the report
\* fails the run still ends with the dashboard image saved.
C10_ArtifactFailuresAreIndependent ==
    /\ failedAt = "create_dashboard" => ReportWritten
    /\ (Terminated /\ C10_ReportFailed) => ImageWritten

====
